---- MODULE Spec2Model ----
(***************************************************************************)
(* A model of the trigger-word mode dispatcher of the speech-to-code      *)
(* pipeline: TriggerWordHandler in                                        *)
(*   src/audio-to-text/speech_to_text/trigger_word_handler.py             *)
(*                                                                         *)
(* Text (a transcript, a keyword, a line of a file) is a sequence of      *)
(* one-character strings, so that str.lower, str.strip and the regular    *)
(* expressions of the handler are computed character by character.        *)
(* An optional value (Python's None or a value) is <<>> or <<value>>.      *)
(***************************************************************************)
EXTENDS Naturals, Integers, Sequences, FiniteSets, TLC

----------------------------------------------------------------------------
(* Characters and Python's string methods                                   *)

UpperCase == <<"A","B","C","D","E","F","G","H","I","J","K","L","M",
               "N","O","P","Q","R","S","T","U","V","W","X","Y","Z">>

LowerCase == <<"a","b","c","d","e","f","g","h","i","j","k","l","m",
               "n","o","p","q","r","s","t","u","v","w","x","y","z">>

Digits == {"0","1","2","3","4","5","6","7","8","9"}

\* \w of Python's re for str patterns: letters, digits and the underscore.
WordChars ==
    { UpperCase[i] : i \in 1..26 } \cup { LowerCase[i] : i \in 1..26 }
        \cup Digits \cup {"_"}

IsWordChar(c) == c \in WordChars

\* \s, and the characters str.strip() removes.
IsSpace(c) == c \in {" ", "\t", "\n", "\r"}

\* str.lower() on one character.
LowerMap == [c \in { UpperCase[i] : i \in 1..26 } |->
                LowerCase[CHOOSE i \in 1..26 : c = UpperCase[i]]]

LowerChar(c) == IF c \in DOMAIN LowerMap THEN LowerMap[c] ELSE c

\* str.lower()
Lower(s) == [i \in 1..Len(s) |-> LowerChar(s[i])]

\* str.lstrip()
RECURSIVE LStrip(_)
LStrip(s) == IF s # <<>> /\ IsSpace(Head(s)) THEN LStrip(Tail(s)) ELSE s

\* str.rstrip()
RECURSIVE RStrip(_)
RStrip(s) ==
    IF s # <<>> /\ IsSpace(s[Len(s)]) THEN RStrip(SubSeq(s, 1, Len(s) - 1)) ELSE s

\* str.strip()
Strip(s) == RStrip(LStrip(s))

\* Python truthiness of a string: not empty.
TruthyStr(s) == s # <<>>

----------------------------------------------------------------------------
(* Optional values                                                          *)

None == <<>>

Some(x) == <<x>>

Val(o) == o[1]

\* Python truthiness of an optional string: neither None nor "".
Truthy(o) == o # None /\ TruthyStr(Val(o))

----------------------------------------------------------------------------
(* The regular expressions of the handler                                   *)

\* \b at offset p (0..Len(s)) of s: exactly one side of the offset is a word
\* character; the ends of the string count as non-word.
WordBoundary(s, p) ==
    LET before == p >= 1 /\ IsWordChar(s[p])
        after == p < Len(s) /\ IsWordChar(s[p + 1])
    IN before # after

\* re.compile(r'\b' + re.escape(trigger.lower()) + r'\b', re.IGNORECASE)
\* matching at offset p of s: the characters agree ignoring case and both
\* ends are word boundaries.
MatchAt(trigger, s, p) ==
    LET n == Len(trigger)
    IN /\ p + n <= Len(s)
       /\ WordBoundary(s, p)
       /\ \A i \in 1..n : LowerChar(s[p + i]) = LowerChar(trigger[i])
       /\ WordBoundary(s, p + n)

\* pattern.search(s)
Search(trigger, s) == \E p \in 0..Len(s) : MatchAt(trigger, s, p)

\* pattern.sub('', s) from offset p on, for a non-empty trigger: the matches
\* are found left to right on the original string and do not overlap.
RECURSIVE SubFrom(_, _, _)
SubFrom(trigger, s, p) ==
    IF p >= Len(s) THEN <<>>
    ELSE IF MatchAt(trigger, s, p) THEN SubFrom(trigger, s, p + Len(trigger))
    ELSE <<s[p + 1]>> \o SubFrom(trigger, s, p + 1)

\* re.sub(r'^[^\w\s]+', '', s): drop the leading run of characters that are
\* neither word characters nor whitespace.
RECURSIVE StripLeadingPunct(_)
StripLeadingPunct(s) ==
    IF s # <<>> /\ ~IsWordChar(Head(s)) /\ ~IsSpace(Head(s))
    THEN StripLeadingPunct(Tail(s))
    ELSE s

StopWord == <<"s","t","o","p">>

\* self.stop_pattern.search(s)
StopSearch(s) == Search(StopWord, s)

----------------------------------------------------------------------------
(* Keywords, file names and transcripts the model draws its inputs from     *)

KwCode == <<"c","o","d","e">>

KwDescription == <<"d","e","s","c","r","i","p","t","i","o","n">>

KwIdeas == <<"i","d","e","a","s">>

KwEmpty == <<>>

KwUpperCode == <<"C","o","d","e">>

TEmpty == <<>>

TBlank == <<" "," ">>

TCode == <<"c","o","d","e">>

TCodeBang == <<"C","o","d","e","!">>

TDescription == <<"d","e","s","c","r","i","p","t","i","o","n">>

TStop == <<"s","t","o","p">>

TStopCode == <<"S","T","O","P"," ","c","o","d","e">>

TDescriptionCode == <<"d","e","s","c","r","i","p","t","i","o","n"," ","c","o","d","e">>

TIdeasForLater == <<"i","d","e","a","s"," ","f","o","r"," ","l","a","t","e","r">>

TIndented == <<" "," ","x">>

THash == <<"#","x">>

TDots == <<".",".",".">>

TEncode == <<"e","n","c","o","d","e">>

\* The transcripts process_transcript is called with.
Transcripts ==
    { TEmpty, TBlank, TCode, TCodeBang, TDescription, TStop, TStopCode,
      TDescriptionCode, TIndented, THash, TDots, TEncode }

\* The transcripts process_transcript is called with where the table changes.
TableTranscripts ==
    { TCode, TStopCode, TIdeasForLater, TEncode }

AllTranscripts == Transcripts \cup TableTranscripts

\* The keywords add_trigger_word and remove_trigger_word are called with.
Keywords == { KwCode, KwIdeas, StopWord, KwEmpty }

\* The file names add_trigger_word is called with (None: no file).
AddFiles == { None, Some("ideas.txt") }

Entry(k, f) == [key |-> k, file |-> f]

\* trigger_words of __init__ when the caller passes none.
DefaultTriggerWords ==
    << Entry(KwCode, Some("code.txt")),
       Entry(KwDescription, Some("description.txt")),
       Entry(StopWord, None) >>

\* Tables a caller constructs the handler with: the default one, and one
\* declared in another order, without a "stop" entry and with a keyword that
\* differs from another only in case.
ConstructorTables ==
    { DefaultTriggerWords,
      << Entry(KwDescription, Some("description.txt")),
         Entry(KwUpperCode, Some("upper.txt")),
         Entry(KwCode, Some("code.txt")) >> }

KeysOf(d) == { d[i].key : i \in 1..Len(d) }

\* Every keyword a table of the model can hold.
AllKeywords == Keywords \cup UNION { KeysOf(d) : d \in ConstructorTables }

\* Bounds of the model.
MaxLines == 2

MaxTableLines == 1

MaxTableOps == 2

MaxStampedLines == 1

MaxClock == 1

----------------------------------------------------------------------------
(* State                                                                    *)

VARIABLES
    trigger_words,              \* self.trigger_words: the ordered dict, as a
                                \* sequence of [key, file] in insertion order
    trigger_patterns,           \* self.trigger_patterns: the keys that have a
                                \* compiled pattern (the pattern is a function
                                \* of the key, see MatchAt)
    enable_timestamps,          \* self.enable_timestamps
    auto_cleanup_trigger_words, \* self.auto_cleanup_trigger_words
    on_mode_change,             \* whether self.on_mode_change is set
    current_mode,               \* self.current_mode: None or Some(keyword)
    current_file,               \* self.current_file: None or Some(file name)
    files,                      \* the output directory: file name -> lines
    now,                        \* datetime.now(), in seconds
    tableOps,                   \* add/remove_trigger_word calls made so far
    pre,                        \* the state the last operation started in
    last                        \* the last operation: its arguments, its
                                \* return value and what it did

\* Threads that call process_transcript on one handler.
VARIABLES
    serialized,                 \* whether the callers hold a lock of their own
                                \* around every call of process_transcript
    threads                     \* each calling thread: the line it is at, its
                                \* locals, and what its last call did

\* ParentPipe (audio_processor/safepipe.py) and the threads that use it.
VARIABLES
    closed,                     \* self._closed
    stop_event,                 \* self._stop_event
    request_queue,              \* self._request_queue
    result_queues,              \* the result_queue of every request made
    worker,                     \* self._worker_thread: the line it is at and
                                \* the request it is executing
    conn,                       \* self._pipe, the underlying connection: its
                                \* state and the messages the child has sent
    childSent,                  \* messages the child process has sent so far
    callers,                    \* the threads that call send, recv, poll and
                                \* close: the line each is at
    pipe_log,                   \* every operation made on self._pipe: which,
                                \* for which request, by which thread
    returned                    \* the messages recv() has returned

threadVars == << serialized, threads >>

pipeVars ==
    << closed, stop_event, request_queue, result_queues, worker, conn,
       childSent, callers, pipe_log, returned >>

\* What the operations of the handler called from one thread leave alone.
others == << threadVars, pipeVars >>

vars ==
    << trigger_words, trigger_patterns, enable_timestamps,
       auto_cleanup_trigger_words, on_mode_change, current_mode, current_file,
       files, now, tableOps, pre, last, threadVars, pipeVars >>

\* The calling threads.
Threads == { "t1", "t2" }

\* A thread outside process_transcript that has made no call yet.
IdleThread ==
    [pc |-> "idle", calls |-> 0, transcript |-> <<>>, began_mode |-> <<>>,
     began_file |-> <<>>, new_mode |-> <<>>, cleaned |-> <<>>,
     result |-> [kind |-> "init", file |-> <<>>, transcript |-> <<>>,
                 began_mode |-> <<>>, began_file |-> <<>>]]

\* No thread is in process_transcript.
ThreadsIdle ==
    /\ serialized = TRUE
    /\ threads = [t \in Threads |-> IdleThread]

\* The threads that use the pipe.
Callers == { "c1", "c2" }

\* A caller outside every method of ParentPipe.
IdleCaller == [pc |-> "idle", op |-> "none", call |-> 0, timeout |-> FALSE]

\* ParentPipe.__init__: nothing queued, the worker thread started, the
\* connection open.
PipeConstructed ==
    /\ closed = FALSE
    /\ stop_event = FALSE
    /\ request_queue = <<>>
    /\ result_queues = <<>>
    /\ worker = [pc |-> "loop", request |-> <<>>]
    /\ conn = [state |-> "open", peer |-> "open", inbox |-> <<>>]
    /\ childSent = 0
    /\ callers = [c \in Callers |-> IdleCaller]
    /\ pipe_log = <<>>
    /\ returned = {}

config == << enable_timestamps, auto_cleanup_trigger_words, on_mode_change >>

----------------------------------------------------------------------------
(* The ordered dict                                                         *)

\* key in d
HasKey(d, k) == \E i \in 1..Len(d) : d[i].key = k

\* d[key]
Lookup(d, k) == d[CHOOSE i \in 1..Len(d) : d[i].key = k].file

\* d[key] = value: an existing key keeps its place, a new one goes last.
DictSet(d, k, v) ==
    IF HasKey(d, k)
    THEN [i \in 1..Len(d) |-> IF d[i].key = k THEN Entry(k, v) ELSE d[i]]
    ELSE Append(d, Entry(k, v))

\* del d[key]
DictDel(d, k) == SelectSeq(d, LAMBDA e : e.key # k)

\* Python truthiness of a table's file name: neither None nor "".
TruthyFile(f) == f # None /\ Val(f) # ""

----------------------------------------------------------------------------
(* The output directory                                                     *)

RECURSIVE SumLines(_, _)
SumLines(fs, names) ==
    IF names = {} THEN 0
    ELSE LET n == CHOOSE n \in names : TRUE
         IN Len(fs[n]) + SumLines(fs, names \ {n})

TotalLines(fs) == SumLines(fs, DOMAIN fs)

\* open(filepath, 'w'): the file is truncated before the line is written.
AppendLineTruncates(fs, name, text, io) ==
    CASE io = "ok" ->
           IF name \in DOMAIN fs
           THEN [fs EXCEPT ![name] = <<text>>]
           ELSE fs @@ (name :> <<text>>)
      [] io = "write_fails" ->
           IF name \in DOMAIN fs
           THEN [fs EXCEPT ![name] = <<>>]
           ELSE fs @@ (name :> <<>>)
      [] OTHER -> fs

\* open(filepath, 'a') and f.write(text + "\n"). io is what the file system
\* does: "ok"; "open_fails" (open raises, nothing is created); "write_fails"
\* (open creates the file, the write raises and adds nothing).
AppendLine(fs, name, text, io) ==
    CASE io = "ok" ->
           IF name \in DOMAIN fs
           THEN [fs EXCEPT ![name] = Append(@, text)]
           ELSE fs @@ (name :> <<text>>)
      [] io = "write_fails" ->
           IF name \in DOMAIN fs THEN fs ELSE fs @@ (name :> <<>>)
      [] OTHER -> fs

IoOutcomes == { "ok", "open_fails", "write_fails" }

----------------------------------------------------------------------------
(* TriggerWordHandler's methods                                             *)

\* A file in the output directory: the table's name and, with timestamps
\* enabled, the second it was computed in (f"{name}_{timestamp}{ext}").
FileName(base, stamp) == [base |-> base, stamp |-> stamp]

\* _get_filename(base_filename)
GetFilename(base) ==
    IF enable_timestamps THEN FileName(base, Some(now)) ELSE FileName(base, None)

\* transcript.lower().strip()
TranscriptLower(transcript) == Strip(Lower(transcript))

\* pattern.search(transcript_lower) for the pattern compiled from trigger,
\* computed once for every keyword and transcript of the model.
SearchTable ==
    [k \in AllKeywords \cup {StopWord} |->
        [t \in AllTranscripts |-> Search(k, TranscriptLower(t))]]

\* The pattern compiled without its \b anchors: the keyword is found inside
\* longer words too.
MatchesInsideWords(trigger, transcript) ==
    LET s == TranscriptLower(transcript)
    IN \E p \in 0..Len(s) :
          /\ p + Len(trigger) <= Len(s)
          /\ \A i \in 1..Len(trigger) : s[p + i] = LowerChar(trigger[i])

\* self.trigger_patterns[trigger].search(transcript_lower)
Matches(trigger, transcript) == SearchTable[trigger][transcript]

\* The stop pattern taken from the table's entry without a file instead of
\* the literal "stop".
StopMatchesFromTable(transcript) ==
    /\ HasKey(trigger_words, StopWord)
    /\ ~TruthyFile(Lookup(trigger_words, StopWord))
    /\ SearchTable[StopWord][transcript]

\* self.stop_pattern.search(transcript_lower)
StopMatches(transcript) == SearchTable[StopWord][transcript]

\* The text _cleanup_trigger_word returns with auto-cleanup enabled.
Cleaned(text, trigger_word) ==
    Strip(StripLeadingPunct(Strip(SubFrom(trigger_word, text, 0))))

\* Cleaned, computed once for every keyword and transcript of the model.
CleanedTable ==
    [k \in (AllKeywords \cup {StopWord}) \ {KwEmpty} |->
        [t \in AllTranscripts |-> Cleaned(t, k)]]

\* _cleanup_trigger_word(text, trigger_word)
CleanupTriggerWord(text, trigger_word) ==
    IF ~auto_cleanup_trigger_words THEN text
    ELSE CleanedTable[trigger_word][text]

\* One invocation of on_mode_change(new_mode, old_mode, trigger_word), and
\* whether it raised.
Call(new_mode, old_mode, trigger_word, raised) ==
    [new_mode |-> new_mode, old_mode |-> old_mode,
     trigger_word |-> trigger_word, raised |-> raised]

\* _switch_mode calling on_mode_change(old_mode, new_mode, trigger_word).
SwitchModeSwapsArguments(new_mode, trigger_word, raises) ==
    IF new_mode = current_mode
    THEN [current_mode |-> current_mode, current_file |-> current_file,
          calls |-> <<>>]
    ELSE [current_mode |-> new_mode,
          current_file |->
              IF Truthy(new_mode) /\ HasKey(trigger_words, Val(new_mode))
              THEN Some(GetFilename(Val(Lookup(trigger_words, Val(new_mode)))))
              ELSE None,
          calls |->
              IF on_mode_change
              THEN << Call(current_mode, new_mode, trigger_word, raises) >>
              ELSE <<>>]

\* _switch_mode computing the file name only when no file is current.
SwitchModeKeepsOpenFile(new_mode, trigger_word, raises) ==
    IF new_mode = current_mode
    THEN [current_mode |-> current_mode, current_file |-> current_file,
          calls |-> <<>>]
    ELSE [current_mode |-> new_mode,
          current_file |->
              IF Truthy(new_mode) /\ HasKey(trigger_words, Val(new_mode))
              THEN IF current_file # None THEN current_file
                   ELSE Some(GetFilename(
                            Val(Lookup(trigger_words, Val(new_mode)))))
              ELSE None,
          calls |->
              IF on_mode_change
              THEN << Call(new_mode, current_mode, trigger_word, raises) >>
              ELSE <<>>]

\* _switch_mode invoking the callback before it assigns the new mode, inside
\* a try/except around the whole body: a raising callback leaves the old mode.
SwitchModeCallbackFirst(new_mode, trigger_word, raises) ==
    IF new_mode = current_mode
    THEN [current_mode |-> current_mode, current_file |-> current_file,
          calls |-> <<>>]
    ELSE IF on_mode_change /\ raises
    THEN [current_mode |-> current_mode, current_file |-> current_file,
          calls |-> << Call(new_mode, current_mode, trigger_word, raises) >>]
    ELSE [current_mode |-> new_mode,
          current_file |->
              IF Truthy(new_mode) /\ HasKey(trigger_words, Val(new_mode))
              THEN Some(GetFilename(Val(Lookup(trigger_words, Val(new_mode)))))
              ELSE None,
          calls |->
              IF on_mode_change
              THEN << Call(new_mode, current_mode, trigger_word, raises) >>
              ELSE <<>>]

\* _switch_mode without its early return for the mode that is already active.
SwitchModeNoEarlyReturn(new_mode, trigger_word, raises) ==
    [current_mode |-> new_mode,
     current_file |->
         IF Truthy(new_mode) /\ HasKey(trigger_words, Val(new_mode))
         THEN Some(GetFilename(Val(Lookup(trigger_words, Val(new_mode)))))
         ELSE None,
     calls |->
         IF on_mode_change
         THEN << Call(new_mode, current_mode, trigger_word, raises) >>
         ELSE <<>>]

\* _switch_mode(new_mode, trigger_word): the mode and file it leaves and the
\* callback invocations it makes. raises: the callback raises when invoked
\* (the exception is caught and logged).
SwitchMode(new_mode, trigger_word, raises) ==
    IF new_mode = current_mode
    THEN [current_mode |-> current_mode, current_file |-> current_file,
          calls |-> <<>>]
    ELSE [current_mode |-> new_mode,
          current_file |->
              IF Truthy(new_mode) /\ HasKey(trigger_words, Val(new_mode))
              THEN Some(GetFilename(Val(Lookup(trigger_words, Val(new_mode)))))
              ELSE None,
          calls |->
              IF on_mode_change
              THEN << Call(new_mode, current_mode, trigger_word, raises) >>
              ELSE <<>>]

\* The table entries the loop of process_transcript does not skip.
Scanned(i) ==
    /\ trigger_words[i].key # StopWord
    /\ TruthyFile(trigger_words[i].file)

\* The loop of process_transcript without its break: the last match wins.
LastTrigger(transcript) ==
    LET stops == { i \in 1..Len(trigger_words) :
                     /\ Scanned(i)
                     /\ \/ trigger_words[i].key \notin trigger_patterns
                        \/ Matches(trigger_words[i].key, transcript) }
    IN IF stops = {} THEN 0
       ELSE CHOOSE i \in stops : \A j \in stops : i >= j

\* The first entry, in insertion order, at which the loop of
\* process_transcript stops: its pattern matches (break), or it has no
\* compiled pattern (KeyError). 0: the loop runs to its end.
FirstTrigger(transcript) ==
    LET stops == { i \in 1..Len(trigger_words) :
                     /\ Scanned(i)
                     /\ \/ trigger_words[i].key \notin trigger_patterns
                        \/ Matches(trigger_words[i].key, transcript) }
    IN IF stops = {} THEN 0
       ELSE CHOOSE i \in stops : \A j \in stops : i <= j

\* What one call of process_transcript does: its return value, whether it
\* raised, the state it leaves, the callback invocations it made, and the
\* line it tried to append with what the file system did.
Outcome(ret, raised, mode, file, calls, fs, wrote, io) ==
    [ret |-> ret, raised |-> raised, current_mode |-> mode,
     current_file |-> file, calls |-> calls, files |-> fs,
     wrote |-> wrote, io |-> io]

Unchanged(ret) ==
    Outcome(ret, FALSE, current_mode, current_file, <<>>, files, None, "none")

\* _write_to_file without its try/except: a failing open or write raises to
\* the caller of process_transcript.
WriteToFilePropagates(text, io) ==
    IF current_file = None \/ Strip(text) = <<>>
    THEN Unchanged(FALSE)
    ELSE Outcome(FALSE, io # "ok", current_mode, current_file, <<>>,
                 AppendLine(files, Val(current_file), text, io),
                 Some(text), io)

\* _write_to_file(text)
WriteToFile(text, io) ==
    IF current_file = None \/ Strip(text) = <<>>
    THEN Unchanged(FALSE)
    ELSE Outcome(FALSE, FALSE, current_mode, current_file, <<>>,
                 AppendLine(files, Val(current_file), text, io),
                 Some(text), io)

\* The last branch of process_transcript: no trigger was detected.
PassThrough(transcript, io) ==
    IF Truthy(current_mode) /\ current_file # None
    THEN LET cleaned_text == CleanupTriggerWord(transcript, Val(current_mode))
         IN IF TruthyStr(cleaned_text)
            THEN WriteToFile(cleaned_text, io)
            ELSE Unchanged(FALSE)
    ELSE Unchanged(FALSE)

\* StopBranch with trigger_detected set outside the test of current_mode.
StopBranchAlwaysDetected(raises) ==
    IF Truthy(current_mode)
    THEN LET sw == SwitchMode(None, Some(StopWord), raises)
         IN Outcome(TRUE, FALSE, sw.current_mode, sw.current_file, sw.calls,
                    files, None, "none")
    ELSE Unchanged(TRUE)

\* The stop branch of process_transcript.
StopBranch(raises) ==
    IF Truthy(current_mode)
    THEN LET sw == SwitchMode(None, Some(StopWord), raises)
         IN Outcome(TRUE, FALSE, sw.current_mode, sw.current_file, sw.calls,
                    files, None, "none")
    ELSE Unchanged(FALSE)

\* The trigger loop falling through to the append after a switch: the rest
\* of the fragment that named the keyword is written to the new file.
TriggerBranchWritesRemainder(transcript, raises, io) ==
    LET i == FirstTrigger(transcript)
    IN IF i = 0 THEN PassThrough(transcript, io)
       ELSE IF trigger_words[i].key \notin trigger_patterns
       THEN Outcome(FALSE, TRUE, current_mode, current_file, <<>>, files,
                    None, "none")
       ELSE LET k == trigger_words[i].key
                sw == SwitchMode(Some(k), Some(k), raises)
                rest == IF k = <<>> THEN transcript
                        ELSE CleanupTriggerWord(transcript, k)
            IN IF sw.current_file # None /\ TruthyStr(Strip(rest))
               THEN Outcome(TRUE, FALSE, sw.current_mode, sw.current_file,
                            sw.calls,
                            AppendLine(files, Val(sw.current_file), rest, io),
                            Some(rest), io)
               ELSE Outcome(TRUE, FALSE, sw.current_mode, sw.current_file,
                            sw.calls, files, None, "none")

\* The trigger loop with trigger_detected set only when the mode changes: a
\* match of the keyword of the active mode returns false.
TriggerBranchSameModeFalse(transcript, raises, io) ==
    LET i == FirstTrigger(transcript)
    IN IF i = 0 THEN PassThrough(transcript, io)
       ELSE IF trigger_words[i].key \notin trigger_patterns
       THEN Outcome(FALSE, TRUE, current_mode, current_file, <<>>, files,
                    None, "none")
       ELSE LET k == trigger_words[i].key
                sw == SwitchMode(Some(k), Some(k), raises)
            IN Outcome(current_mode # Some(k), FALSE, sw.current_mode,
                       sw.current_file, sw.calls, files, None, "none")

\* The trigger loop of process_transcript and what follows it.
TriggerBranch(transcript, raises, io) ==
    LET i == FirstTrigger(transcript)
    IN IF i = 0 THEN PassThrough(transcript, io)
       ELSE IF trigger_words[i].key \notin trigger_patterns
       THEN Outcome(FALSE, TRUE, current_mode, current_file, <<>>, files,
                    None, "none")
       ELSE LET k == trigger_words[i].key
                sw == SwitchMode(Some(k), Some(k), raises)
            IN Outcome(TRUE, FALSE, sw.current_mode, sw.current_file,
                       sw.calls, files, None, "none")

\* process_transcript with the trigger loop run before the stop check.
process_transcript_StopLast(transcript, raises, io) ==
    IF ~TruthyStr(transcript) \/ ~TruthyStr(Strip(transcript))
    THEN Unchanged(FALSE)
    ELSE IF FirstTrigger(transcript) # 0
    THEN TriggerBranch(transcript, raises, io)
    ELSE IF StopMatches(transcript)
    THEN StopBranch(raises)
    ELSE TriggerBranch(transcript, raises, io)

\* process_transcript(transcript)
process_transcript(transcript, raises, io) ==
    IF ~TruthyStr(transcript) \/ ~TruthyStr(Strip(transcript))
    THEN Unchanged(FALSE)
    ELSE IF StopMatches(transcript)
    THEN StopBranch(raises)
    ELSE TriggerBranch(transcript, raises, io)

\* The state an operation starts in.
Snapshot ==
    [current_mode |-> current_mode, current_file |-> current_file,
     files |-> files]

\* The record of an operation.
Op(name, text, file, o) ==
    [op |-> name, text |-> text, file |-> file, ret |-> o.ret,
     raised |-> o.raised, calls |-> o.calls, wrote |-> o.wrote, io |-> o.io]

\* trigger_patterns of __init__: a pattern for every entry with a file name.
InitialPatterns(d) ==
    { d[i].key : i \in { j \in 1..Len(d) : TruthyFile(d[j].file) } }

\* The fields of the handler after __init__, constructed with table d.
HandlerConstructed(d) ==
    /\ trigger_words = d
    /\ trigger_patterns = InitialPatterns(d)
    /\ auto_cleanup_trigger_words \in BOOLEAN
    /\ on_mode_change \in BOOLEAN
    /\ current_mode = None
    /\ current_file = None
    /\ files = << >>
    /\ now = 0
    /\ tableOps = 0
    /\ pre = [current_mode |-> None, current_file |-> None, files |-> << >>]
    /\ last = Op("init", <<>>, None, Unchanged(FALSE))

\* The handler after __init__, used from one thread; the pipe just
\* constructed and not used.
Constructed(d) ==
    /\ HandlerConstructed(d)
    /\ ThreadsIdle
    /\ PipeConstructed

\* Timestamps disabled (the default), any table, any other setting.
Init == \E d \in ConstructorTables : Constructed(d) /\ enable_timestamps = FALSE

\* A caller calls process_transcript(transcript); the files hold at most
\* maxLines lines. The callback's and the file
\* system's behaviour are drawn where the call consults them.
Process(transcript, maxLines) ==
    \E probe \in {process_transcript(transcript, FALSE, "ok")} :
       \E raises \in (IF probe.calls # <<>> THEN BOOLEAN ELSE {FALSE}),
          io \in (IF probe.wrote # None THEN IoOutcomes ELSE {"ok"}) :
        \E o \in {process_transcript(transcript, raises, io)} :
           /\ TotalLines(o.files) <= maxLines
           /\ current_mode' = o.current_mode
           /\ current_file' = o.current_file
           /\ files' = o.files
           /\ pre' = Snapshot
           /\ UNCHANGED others
           /\ last' = Op("process_transcript", transcript, None, o)
           /\ UNCHANGED << trigger_words, trigger_patterns, config, now,
                           tableOps >>

ProcessTranscript ==
    \E transcript \in Transcripts : Process(transcript, MaxLines)

\* get_status(): the fields of the dict it returns that the model holds.
get_status ==
    [current_mode |-> current_mode, current_file |-> current_file,
     trigger_words |-> trigger_words]

\* get_output_files(): the paths, in the order of the table, of the entries
\* with a file name whose file exists in the output directory.
get_output_files ==
    LET hits == SelectSeq(trigger_words,
                          LAMBDA e : /\ TruthyFile(e.file)
                                     /\ FileName(Val(e.file), None)
                                            \in DOMAIN files)
    IN [i \in 1..Len(hits) |-> FileName(Val(hits[i].file), None)]

\* reset() without its assignment to current_file.
ResetKeepsFile ==
    /\ current_mode' = None
    /\ current_file' = current_file
    /\ pre' = Snapshot
    /\ UNCHANGED others
    /\ last' = Op("reset", <<>>, None, Unchanged(FALSE))
    /\ UNCHANGED << trigger_words, trigger_patterns, config, files, now,
                    tableOps >>

\* reset()
Reset ==
    /\ current_mode' = None
    /\ current_file' = None
    /\ pre' = Snapshot
    /\ UNCHANGED others
    /\ last' = Op("reset", <<>>, None, Unchanged(FALSE))
    /\ UNCHANGED << trigger_words, trigger_patterns, config, files, now,
                    tableOps >>

\* add_trigger_word assigning trigger_words only: no pattern is compiled.
PatternsAfterAddForgets(trigger, filename) == trigger_patterns

\* trigger_patterns after add_trigger_word(trigger, filename): a pattern is
\* compiled for a keyword given a file name.
PatternsAfterAdd(trigger, filename) ==
    IF TruthyFile(filename)
    THEN trigger_patterns \cup {trigger}
    ELSE trigger_patterns

\* add_trigger_word(trigger, filename)
AddTriggerWord ==
    \E trigger \in Keywords, filename \in AddFiles :
        /\ tableOps < MaxTableOps
        /\ tableOps' = tableOps + 1
        /\ trigger_words' = DictSet(trigger_words, trigger, filename)
        /\ trigger_patterns' = PatternsAfterAdd(trigger, filename)
        /\ pre' = Snapshot
        /\ UNCHANGED others
        /\ last' = Op("add_trigger_word", trigger, filename, Unchanged(FALSE))
        /\ UNCHANGED << config, current_mode, current_file, files, now >>

\* remove_trigger_word deactivating the mode whose keyword it removes.
RemoveTriggerWordDeactivates ==
    \E trigger \in Keywords :
        /\ tableOps < MaxTableOps
        /\ tableOps' = tableOps + 1
        /\ IF HasKey(trigger_words, trigger)
           THEN /\ trigger_words' = DictDel(trigger_words, trigger)
                /\ trigger_patterns' = trigger_patterns \ {trigger}
           ELSE UNCHANGED << trigger_words, trigger_patterns >>
        /\ IF current_mode = Some(trigger)
           THEN current_mode' = None /\ current_file' = None
           ELSE UNCHANGED << current_mode, current_file >>
        /\ pre' = Snapshot
        /\ UNCHANGED others
        /\ last' = Op("remove_trigger_word", trigger, None, Unchanged(FALSE))
        /\ UNCHANGED << config, files, now >>

\* remove_trigger_word(trigger)
RemoveTriggerWord ==
    \E trigger \in Keywords :
        /\ tableOps < MaxTableOps
        /\ tableOps' = tableOps + 1
        /\ IF HasKey(trigger_words, trigger)
           THEN /\ trigger_words' = DictDel(trigger_words, trigger)
                /\ trigger_patterns' = trigger_patterns \ {trigger}
           ELSE UNCHANGED << trigger_words, trigger_patterns >>
        /\ pre' = Snapshot
        /\ UNCHANGED others
        /\ last' = Op("remove_trigger_word", trigger, None, Unchanged(FALSE))
        /\ UNCHANGED << config, current_mode, current_file, files, now >>

\* A second passes on the clock _get_filename reads.
Tick ==
    /\ enable_timestamps = TRUE
    /\ now < MaxClock
    /\ now' = now + 1
    /\ UNCHANGED others
    /\ UNCHANGED << trigger_words, trigger_patterns, config, current_mode,
                    current_file, files, tableOps, pre, last >>

Next ==
    \/ ProcessTranscript
    \/ Reset

Spec == Init /\ [][Next]_vars

\* The handler with timestamped file names.
StampedTranscripts ==
    { TCode, TDescription, TDescriptionCode, TStop, TEncode }

ProcessStampedTranscript ==
    \E transcript \in StampedTranscripts : Process(transcript, MaxStampedLines)

InitStamped ==
    /\ Constructed(DefaultTriggerWords)
    /\ enable_timestamps = TRUE
    /\ auto_cleanup_trigger_words
    /\ on_mode_change

NextStamped ==
    \/ ProcessStampedTranscript
    \/ Reset
    \/ Tick

SpecStamped == InitStamped /\ [][NextStamped]_vars

\* The handler with its table changed at run time.
ProcessTableTranscript ==
    \E transcript \in TableTranscripts : Process(transcript, MaxTableLines)

NextTable ==
    \/ ProcessTableTranscript
    \/ Reset
    \/ AddTriggerWord
    \/ RemoveTriggerWord

InitTable ==
    /\ Constructed(DefaultTriggerWords)
    /\ enable_timestamps = FALSE
    /\ auto_cleanup_trigger_words
    /\ on_mode_change

SpecTable == InitTable /\ [][NextTable]_vars

----------------------------------------------------------------------------
(* Vocabulary of the properties                                             *)

\* The last operation was a call of process_transcript that returned.
Processed == last.op = "process_transcript" /\ ~last.raised

\* text contains word as a whole word, in any case.
ContainsWord(word, text) == Search(word, text)

\* text is empty or whitespace only.
Blank(text) == \A i \in 1..Len(text) : IsSpace(text[i])

\* A mode is active: current_mode is a keyword (the handler's own test,
\* "if self.current_mode").
Active(mode) == Truthy(mode)

\* Entry i of the table is a keyword other than "stop" with a file.
Configured(i) ==
    /\ trigger_words[i].key # StopWord
    /\ TruthyFile(trigger_words[i].file)

\* The configured keywords text contains, by their place in the table.
MatchingEntries(text) ==
    { i \in 1..Len(trigger_words) :
        Configured(i) /\ ContainsWord(trigger_words[i].key, text) }

\* The matching keyword declared first (0: none matches).
FirstDeclared(text) ==
    IF MatchingEntries(text) = {} THEN 0
    ELSE CHOOSE i \in MatchingEntries(text) :
             \A j \in MatchingEntries(text) : i <= j

\* The callback was invoked exactly once, with (new_mode, old_mode, keyword).
CalledOnceWith(new_mode, old_mode, keyword) ==
    \E raised \in BOOLEAN :
        last.calls = << Call(new_mode, old_mode, keyword, raised) >>

----------------------------------------------------------------------------
(* Properties                                                               *)

\* C1: stop has priority. A call of process_transcript with a fragment that
\* contains the whole word "stop" (any case, whatever other keywords it
\* contains) while a mode M is active leaves current_mode and current_file
\* None, invokes the callback exactly once with (None, M, "stop"), returns
\* True and appends nothing to any file.
C1_StopPriority ==
    ( /\ Processed
      /\ ContainsWord(StopWord, last.text)
      /\ Active(pre.current_mode) )
    => /\ current_mode = None
       /\ current_file = None
       /\ on_mode_change =>
              CalledOnceWith(None, pre.current_mode, Some(StopWord))
       /\ ~on_mode_change => last.calls = <<>>
       /\ last.ret = TRUE
       /\ files = pre.files

\* "STOP code" was processed in description mode: the mode ended, code mode
\* was not entered.
C1_Witness ==
    /\ Processed
    /\ last.text = TStopCode
    /\ pre.current_mode = Some(KwDescription)
    /\ HasKey(trigger_words, KwCode)
    /\ current_mode = None
    /\ last.ret = TRUE
    /\ Len(last.calls) = 1

\* C2: while no mode is active, a fragment containing the whole word "stop"
\* (even beside a trigger keyword) is a no-op: process_transcript returns
\* False, current_mode and current_file stay None, the callback is not
\* invoked and no file changes.
C2_StopWithoutMode ==
    ( /\ Processed
      /\ ContainsWord(StopWord, last.text)
      /\ pre.current_mode = None )
    => /\ last.ret = FALSE
       /\ current_mode = None
       /\ current_file = None
       /\ last.calls = <<>>
       /\ files = pre.files

\* "STOP code" was processed with no mode active, after a line was written.
C2_Witness ==
    /\ Processed
    /\ last.text = TStopCode
    /\ pre.current_mode = None
    /\ HasKey(trigger_words, KwCode)
    /\ last.ret = FALSE
    /\ TotalLines(files) > 0

\* text consists solely of the word, in any case, with any characters that
\* are not word characters around it.
SolelyWord(word, text) ==
    /\ word # <<>>
    /\ \A i \in 1..Len(word) : IsWordChar(word[i])
    /\ \E a \in 0..Len(text) :
          /\ a + Len(word) <= Len(text)
          /\ \A i \in 1..a : ~IsWordChar(text[i])
          /\ \A i \in (a + Len(word) + 1)..Len(text) : ~IsWordChar(text[i])
          /\ \A i \in 1..Len(word) : LowerChar(text[a + i]) = LowerChar(word[i])

\* No keyword with a file declared before entry i is empty or equals the
\* keyword of entry i ignoring case.
NoEarlierRival(i) ==
    \A j \in 1..(i - 1) :
        Configured(j) =>
            /\ trigger_words[j].key # <<>>
            /\ Lower(trigger_words[j].key) # Lower(trigger_words[i].key)

\* C3 as stated: for every configured non-stop keyword K with file F and
\* every prior mode (None, another keyword, K itself), a fragment consisting
\* solely of the word K leaves current_mode = K and current_file = F and
\* fires the callback exactly once with (K, previous_mode, K).
C3_AsStated ==
    \A i \in 1..Len(trigger_words) :
        ( /\ Processed
          /\ Configured(i)
          /\ SolelyWord(trigger_words[i].key, last.text) )
        => /\ current_mode = Some(trigger_words[i].key)
           /\ current_file = Some(FileName(Val(trigger_words[i].file), None))
           /\ on_mode_change =>
                  CalledOnceWith(Some(trigger_words[i].key), pre.current_mode,
                                 Some(trigger_words[i].key))

\* C3, amended: for every configured keyword K with file F that is not "stop"
\* in any case and has no earlier-declared rival (a keyword with a file that
\* is empty or equals K ignoring case), a fragment consisting solely of the
\* word K leaves current_mode = K; when the previous mode was not K it sets
\* current_file = F and fires the callback exactly once with
\* (K, previous_mode, K); when the previous mode was K it leaves current_file
\* unchanged and does not fire the callback.
C3_KeywordAlone ==
    \A i \in 1..Len(trigger_words) :
        LET K == trigger_words[i].key
        IN ( /\ Processed
             /\ Configured(i)
             /\ Lower(K) # StopWord
             /\ NoEarlierRival(i)
             /\ SolelyWord(K, last.text) )
           => /\ current_mode = Some(K)
              /\ IF pre.current_mode = Some(K)
                 THEN /\ current_file = pre.current_file
                      /\ last.calls = <<>>
                 ELSE /\ current_file =
                            Some(FileName(Val(trigger_words[i].file), None))
                      /\ on_mode_change =>
                             CalledOnceWith(Some(K), pre.current_mode, Some(K))
                      /\ ~on_mode_change => last.calls = <<>>

\* "Code!" was processed in description mode and switched to code mode.
C3_Witness ==
    /\ Processed
    /\ last.text = TCodeBang
    /\ pre.current_mode = Some(KwDescription)
    /\ current_mode = Some(KwCode)
    /\ current_file = Some(FileName("code.txt", None))
    /\ Len(last.calls) = 1

C5_FirstDeclaredWins ==
    ( /\ Processed
      /\ ~ContainsWord(StopWord, last.text)
      /\ Cardinality(MatchingEntries(last.text)) >= 2 )
    => LET K == trigger_words[FirstDeclared(last.text)].key
       IN /\ current_mode = Some(K)
          /\ last.ret = TRUE
          /\ \A c \in 1..Len(last.calls) :
                /\ last.calls[c].new_mode = Some(K)
                /\ last.calls[c].trigger_word = Some(K)
          /\ (K # <<>> /\ pre.current_mode # Some(K)) =>
                current_file = Some(GetFilename(Val(Lookup(trigger_words, K))))

\* "description code" was processed in description mode with the default
\* table: "code", declared first and spoken last, was selected.
C5_Witness ==
    /\ Processed
    /\ last.text = TDescriptionCode
    /\ trigger_words = DefaultTriggerWords
    /\ pre.current_mode = Some(KwDescription)
    /\ current_mode = Some(KwCode)

\* text contains neither "stop" nor any keyword of the table.
MatchesNothing(text) ==
    /\ ~ContainsWord(StopWord, text)
    /\ \A i \in 1..Len(trigger_words) :
          ~ContainsWord(trigger_words[i].key, text)

\* C6 as stated: when a mode is active and a non-blank fragment matches
\* neither "stop" nor any trigger keyword, process_transcript (its write not
\* failing) appends exactly one line, the original fragment verbatim, to
\* current_file, modifies no other file, leaves current_mode and current_file
\* unchanged and returns false.
C6_AppendsVerbatim ==
    ( /\ Processed
      /\ Active(pre.current_mode)
      /\ pre.current_file # None
      /\ ~Blank(last.text)
      /\ MatchesNothing(last.text)
      /\ last.io \in { "ok", "none" } )
    => /\ files = AppendLine(pre.files, Val(pre.current_file), last.text, "ok")
       /\ current_mode = pre.current_mode
       /\ current_file = pre.current_file
       /\ last.ret = FALSE

\* C7: process_transcript is a no-op returning false when the fragment is
\* empty or whitespace only (in any state), and when the fragment matches no
\* keyword while no mode is active: the step leaves current_mode,
\* current_file, the trigger table, the patterns and every file unchanged,
\* returns false and does not invoke the callback.
C7_NoOp ==
    [][ ( /\ last'.op = "process_transcript"
          /\ \/ Blank(last'.text)
             \/ current_mode = None /\ MatchesNothing(last'.text) )
        => /\ UNCHANGED << current_mode, current_file, trigger_words,
                           trigger_patterns, files >>
           /\ last'.ret = FALSE
           /\ last'.raised = FALSE
           /\ last'.calls = <<>>
           /\ last'.wrote = None ]_vars

\* "encode" was processed while no mode was active and files existed: it
\* matched nothing and changed nothing.
C7_Witness ==
    /\ Processed
    /\ last.text = TEncode
    /\ pre.current_mode = None
    /\ current_mode = None
    /\ current_file = None
    /\ files # <<>>
    /\ files = pre.files
    /\ last.ret = FALSE

\* C8 as stated, step by step: with the default table, timestamps disabled
\* and no failing write, every process_transcript leaves the files as they
\* were, except that a non-blank fragment that matched no keyword and arrived
\* while a mode was active is added, as it arrived, as the last line of the
\* file the table maps that mode to; so each file holds, in arrival order,
\* exactly the fragments that arrived in its mode and matched nothing.
C8_FilesHoldFragments ==
    ( /\ Processed
      /\ trigger_words = DefaultTriggerWords
      /\ ~enable_timestamps
      /\ last.io \in { "ok", "none" } )
    => files =
         IF /\ pre.current_mode # None
            /\ ~Blank(last.text)
            /\ MatchesNothing(last.text)
         THEN AppendLine(pre.files,
                         FileName(Val(Lookup(DefaultTriggerWords,
                                             Val(pre.current_mode))), None),
                         last.text, "ok")
         ELSE pre.files

\* C9 as stated: in every reachable state current_file is non-null if and
\* only if current_mode is non-null.
C9_FileIffMode == (current_file # None) <=> (current_mode # None)

\* C10 as stated: with timestamps disabled, in every reachable state in which
\* a mode is active, current_file is the file name the trigger table maps
\* current_mode to.
C10_FileOfTable ==
    (~enable_timestamps /\ current_mode # None)
    => /\ HasKey(trigger_words, Val(current_mode))
       /\ Lookup(trigger_words, Val(current_mode)) # None
       /\ current_file =
            Some(FileName(Val(Lookup(trigger_words, Val(current_mode))), None))

\* C10, amended: with timestamps disabled, a process_transcript that changes
\* current_mode and leaves a current_file leaves the file name the trigger
\* table maps the new mode to at that moment, and every operation that leaves
\* current_mode unchanged (add_trigger_word and remove_trigger_word among
\* them) leaves current_file unchanged: current_file is the table's file for
\* current_mode as of the time the mode was entered.
C10_FileOfTableAtEntry ==
    ~enable_timestamps
    => /\ ( /\ Processed
            /\ current_mode # pre.current_mode
            /\ current_file # None )
          => /\ HasKey(trigger_words, Val(current_mode))
             /\ Lookup(trigger_words, Val(current_mode)) # None
             /\ current_file =
                  Some(FileName(Val(Lookup(trigger_words, Val(current_mode))),
                                None))
       /\ (last.op # "init" /\ current_mode = pre.current_mode)
          => current_file = pre.current_file

\* add_trigger_word("code", "ideas.txt") was called in code mode: the table
\* maps the active mode to ideas.txt and current_file is still code.txt.
C10_Witness ==
    /\ last.op = "add_trigger_word"
    /\ last.text = KwCode
    /\ current_mode = Some(KwCode)
    /\ Lookup(trigger_words, KwCode) = Some("ideas.txt")
    /\ current_file = Some(FileName("code.txt", None))

\* The file system failed the append of the last operation.
WriteFailures == { "open_fails", "write_fails" }

\* C11 as stated: for a handler with a callback, every operation that changes
\* current_mode invokes the callback exactly once, with new_mode and old_mode
\* the modes after and before the change, and an operation that leaves
\* current_mode unchanged does not invoke it.
C11_CallbackOnEveryChange ==
    (on_mode_change /\ last.op # "init")
    => IF current_mode # pre.current_mode
       THEN /\ Len(last.calls) = 1
            /\ last.calls[1].new_mode = current_mode
            /\ last.calls[1].old_mode = pre.current_mode
       ELSE last.calls = <<>>

\* C12: when the append of a process_transcript fails (the open or the write
\* raises), the call does not raise and returns false, current_mode and
\* current_file are unchanged, and no line is added to any file (the fragment
\* is dropped); the next process_transcript whose append succeeds adds to the
\* files exactly its own line, in the current file.
C12_WriteFailureDropsFragment ==
    [][ /\ (last'.op = "process_transcript" /\ last'.io \in WriteFailures)
           => /\ last'.raised = FALSE
              /\ last'.ret = FALSE
              /\ last'.calls = <<>>
              /\ UNCHANGED << current_mode, current_file >>
              /\ \A n \in DOMAIN files :
                    n \in DOMAIN files' /\ files'[n] = files[n]
              /\ \A n \in DOMAIN files' \ DOMAIN files : files'[n] = <<>>
        /\ ( /\ last.op = "process_transcript"
             /\ last.io \in WriteFailures
             /\ last'.op = "process_transcript"
             /\ last'.io = "ok" )
           => /\ last'.wrote # None
              /\ files' = AppendLine(files, Val(current_file'),
                                     Val(last'.wrote), "ok") ]_vars

\* In an active mode that has a file with a line, the open of an append
\* failed: the call returned false and the files are as they were.
C12_Witness ==
    /\ last.op = "process_transcript"
    /\ last.io = "open_fails"
    /\ last.ret = FALSE
    /\ ~last.raised
    /\ Active(current_mode)
    /\ current_file # None
    /\ Val(current_file) \in DOMAIN files
    /\ files[Val(current_file)] # <<>>
    /\ files = pre.files

\* C13: when the callback raises during a mode switch made by
\* process_transcript (by a trigger keyword or by "stop"), the call does not
\* raise and returns true, and current_mode and current_file are those of the
\* new mode: the keyword and the table's file for it, or none after "stop".
C13_CallbackRaises ==
    ( /\ last.op = "process_transcript"
      /\ \E c \in 1..Len(last.calls) : last.calls[c].raised )
    => /\ ~last.raised
       /\ last.ret = TRUE
       /\ Len(last.calls) = 1
       /\ current_mode = last.calls[1].new_mode
       /\ current_mode # pre.current_mode
       /\ IF ContainsWord(StopWord, last.text)
          THEN current_mode = None /\ current_file = None
          ELSE /\ current_mode =
                    Some(trigger_words[FirstDeclared(last.text)].key)
               /\ Val(current_mode) # <<>> =>
                    /\ current_file # None
                    /\ Val(current_file).base =
                         Val(Lookup(trigger_words, Val(current_mode)))
                    /\ Val(current_file).stamp \in
                         IF enable_timestamps
                         THEN { Some(t) : t \in 0..now }
                         ELSE { None }

\* The callback raised on the switch from code to description, and the
\* handler is in description mode with description.txt.
C13_Witness ==
    /\ last.op = "process_transcript"
    /\ Len(last.calls) = 1
    /\ last.calls[1].raised
    /\ pre.current_mode = Some(KwCode)
    /\ current_mode = Some(KwDescription)
    /\ current_file = Some(FileName("description.txt", None))
    /\ last.ret = TRUE

\* C14: no call of process_transcript raises: in every state reachable by
\* process_transcript, reset, add_trigger_word and remove_trigger_word, with
\* callbacks and file writes allowed to fail, the last call returned a
\* boolean, and every table entry the loop scans has a compiled pattern.
C14_NeverRaises ==
    /\ ~last.raised
    /\ last.ret \in BOOLEAN
    /\ \A i \in 1..Len(trigger_words) :
          Scanned(i) => trigger_words[i].key \in trigger_patterns

\* "ideas for later" was processed after add_trigger_word("ideas",
\* "ideas.txt"): the entry added at run time was scanned and matched, the
\* callback raised, and the call returned true.
C14_Witness ==
    /\ Processed
    /\ last.text = TIdeasForLater
    /\ last.ret = TRUE
    /\ current_mode = Some(KwIdeas)
    /\ \E i \in 1..Len(trigger_words) :
          Scanned(i) /\ trigger_words[i].key = KwIdeas
    /\ Len(last.calls) = 1
    /\ last.calls[1].raised

\* C15: reset() from any state leaves current_mode = none and current_file =
\* none as get_status() reports them, and a reset that follows a reset changes
\* nothing of the handler or of the files: twice is the same as once. (A step
\* that leaves the clock alone and ends with last.op = "reset" is a reset.)
C15_ResetIdempotent ==
    [][ (last'.op = "reset" /\ now' = now)
        => /\ get_status'.current_mode = None
           /\ get_status'.current_file = None
           /\ get_status'.trigger_words = get_status.trigger_words
           /\ files' = files
           /\ last.op = "reset"
              => /\ get_status' = get_status
                 /\ UNCHANGED << trigger_words, trigger_patterns, config,
                                 current_mode, current_file, files, now,
                                 tableOps >>
                 /\ last' = last ]_vars

\* reset() was called in an active mode whose file holds a line: no mode, no
\* file, and the files as they were.
C15_Witness ==
    /\ last.op = "reset"
    /\ Active(pre.current_mode)
    /\ pre.current_file # None
    /\ Val(pre.current_file) \in DOMAIN files
    /\ files[Val(pre.current_file)] # <<>>
    /\ get_status.current_mode = None
    /\ get_status.current_file = None
    /\ files = pre.files

\* word is a word: not empty, word characters only.
IsWord(word) ==
    /\ word # <<>>
    /\ \A i \in 1..Len(word) : IsWordChar(word[i])

\* text contains word as a whole word, with another word somewhere after it.
FollowedByWords(word, text) ==
    \E p \in 0..Len(text) :
        /\ MatchAt(word, text, p)
        /\ \E q \in (p + Len(word) + 1)..Len(text) : IsWordChar(text[q])

\* Entry i of the table is not an entry of the constructor's table: it was
\* added by add_trigger_word.
AddedAtRunTime(i) ==
    \A j \in 1..Len(DefaultTriggerWords) :
        DefaultTriggerWords[j] # trigger_words[i]

\* C16 as stated: after add_trigger_word(K, F) for a new keyword K, a
\* fragment that contains K as a whole word followed by other words switches
\* current_mode to K with current_file = F and creates the file F in the
\* output directory.
C16_AddedKeywordCreatesFile ==
    \A i \in 1..Len(trigger_words) :
        ( /\ Processed
          /\ AddedAtRunTime(i)
          /\ Configured(i)
          /\ IsWord(trigger_words[i].key)
          /\ FollowedByWords(trigger_words[i].key, last.text) )
        => /\ current_mode = Some(trigger_words[i].key)
           /\ current_file = Some(FileName(Val(trigger_words[i].file), None))
           /\ Val(current_file) \in DOMAIN files

\* C16, amended: after add_trigger_word(K, F) for a new keyword K that is a
\* word, a fragment that contains K as a whole word followed by other words,
\* and contains neither "stop" nor a keyword declared before K, processed
\* while K is not the active mode, switches current_mode to K with
\* current_file = F (timestamps disabled), returns true and writes nothing:
\* the fragment creates no file and adds no line.
C16_AddedKeywordSwitches ==
    \A i \in 1..Len(trigger_words) :
        ( /\ Processed
          /\ ~enable_timestamps
          /\ Configured(i)
          /\ IsWord(trigger_words[i].key)
          /\ FollowedByWords(trigger_words[i].key, last.text)
          /\ ~ContainsWord(StopWord, last.text)
          /\ FirstDeclared(last.text) = i
          /\ pre.current_mode # Some(trigger_words[i].key) )
        => /\ current_mode = Some(trigger_words[i].key)
           /\ current_file = Some(FileName(Val(trigger_words[i].file), None))
           /\ last.ret = TRUE
           /\ last.wrote = None
           /\ files = pre.files

\* After add_trigger_word("ideas", "ideas.txt"), "ideas for later" was
\* processed in code mode: the mode is ideas, the file is ideas.txt, and
\* there is no ideas.txt in the output directory.
C16_Witness ==
    /\ Processed
    /\ last.text = TIdeasForLater
    /\ pre.current_mode = Some(KwCode)
    /\ current_mode = Some(KwIdeas)
    /\ current_file = Some(FileName("ideas.txt", None))
    /\ FileName("ideas.txt", None) \notin DOMAIN files

\* C17 as stated: remove_trigger_word(K) while K is the active mode leaves
\* current_mode and current_file unchanged, and afterwards (K out of the
\* table, and still the mode or no mode active) process_transcript on any
\* fragment containing K returns false and fires no callback, and from
\* no-mode does not make K the current mode.
C17_RemovedKeywordNeverTriggers ==
    /\ (last.op = "remove_trigger_word" /\ pre.current_mode = Some(last.text))
       => /\ current_mode = pre.current_mode
          /\ current_file = pre.current_file
          /\ ~HasKey(trigger_words, last.text)
    /\ \A K \in Keywords \ {StopWord} :
          ( /\ Processed
            /\ IsWord(K)
            /\ ~HasKey(trigger_words, K)
            /\ ContainsWord(K, last.text) )
          => /\ pre.current_mode = Some(K)
                => last.ret = FALSE /\ last.calls = <<>>
             /\ pre.current_mode = None => current_mode # Some(K)

\* C17, amended: remove_trigger_word(K) while K is the active mode leaves
\* current_mode and current_file unchanged, and while K is out of the table a
\* fragment containing K that contains no "stop" and matches no keyword left
\* in the table is not recognised as a trigger: process_transcript returns
\* false, fires no callback and leaves current_mode and current_file
\* unchanged, so from no-mode it never makes K the current mode.
C17_RemovedKeywordAlone ==
    /\ (last.op = "remove_trigger_word" /\ pre.current_mode = Some(last.text))
       => /\ current_mode = pre.current_mode
          /\ current_file = pre.current_file
          /\ ~HasKey(trigger_words, last.text)
    /\ \A K \in Keywords \ {StopWord} :
          ( /\ Processed
            /\ IsWord(K)
            /\ ~HasKey(trigger_words, K)
            /\ ContainsWord(K, last.text)
            /\ ~ContainsWord(StopWord, last.text)
            /\ MatchingEntries(last.text) = {} )
          => /\ last.ret = FALSE
             /\ last.calls = <<>>
             /\ current_mode = pre.current_mode
             /\ current_file = pre.current_file

\* "code" was processed in code mode after remove_trigger_word("code"): the
\* mode is still code, with its file, and the call returned false.
C17_Witness ==
    /\ Processed
    /\ last.text = TCode
    /\ ~HasKey(trigger_words, KwCode)
    /\ pre.current_mode = Some(KwCode)
    /\ current_mode = Some(KwCode)
    /\ current_file = Some(FileName("code.txt", None))
    /\ last.ret = FALSE
    /\ last.calls = <<>>

\* C18: deactivation by "stop" does not depend on the table: current_mode is
\* never "stop", and with no "stop" entry in the table (constructed without
\* it, or removed) or with "stop" mapped to a file name by add_trigger_word, a
\* fragment containing "stop" while a mode is active switches to no-mode and
\* returns true.
C18_StopIndependentOfTable ==
    /\ current_mode # Some(StopWord)
    /\ ( /\ Processed
         /\ ContainsWord(StopWord, last.text)
         /\ Active(pre.current_mode)
         /\ \/ ~HasKey(trigger_words, StopWord)
            \/ TruthyFile(Lookup(trigger_words, StopWord)) )
       => /\ current_mode = None
          /\ current_file = None
          /\ last.ret = TRUE

\* With "stop" mapped to ideas.txt by add_trigger_word, "STOP code" was
\* processed in code mode and switched to no-mode.
C18_Witness ==
    /\ Processed
    /\ last.text = TStopCode
    /\ HasKey(trigger_words, StopWord)
    /\ Lookup(trigger_words, StopWord) = Some("ideas.txt")
    /\ pre.current_mode = Some(KwCode)
    /\ current_mode = None
    /\ current_file = None

\* a is a prefix of b.
IsPrefix(a, b) == Len(a) <= Len(b) /\ SubSeq(b, 1, Len(a)) = a

\* C19 as stated: after every operation each file is still there with its
\* previous content as a prefix of its content, and a file that was not there
\* before came into existence by a successful append.
C19_AppendOnlyCreatedByAppend ==
    /\ \A n \in DOMAIN pre.files :
          n \in DOMAIN files /\ IsPrefix(pre.files[n], files[n])
    /\ \A n \in DOMAIN files \ DOMAIN pre.files :
          /\ last.op = "process_transcript"
          /\ last.io = "ok"
          /\ files[n] # <<>>

\* C19, amended: after every operation each file is still there with its
\* previous content as a prefix of its content; a file comes into existence
\* only when process_transcript opens the current file to append a fragment:
\* with that fragment as its only line when the append succeeds, and empty
\* when the open succeeds and the write fails.
C19_AppendOnlyCreatedByOpen ==
    /\ \A n \in DOMAIN pre.files :
          n \in DOMAIN files /\ IsPrefix(pre.files[n], files[n])
    /\ \A n \in DOMAIN files \ DOMAIN pre.files :
          /\ last.op = "process_transcript"
          /\ last.wrote # None
          /\ current_file = Some(n)
          /\ \/ last.io = "ok" /\ files[n] = << Val(last.wrote) >>
             \/ last.io = "write_fails" /\ files[n] = <<>>

\* A second line was appended to the current file while another file, left
\* empty by a failed write, is still there.
C19_Witness ==
    /\ Processed
    /\ last.io = "ok"
    /\ current_file # None
    /\ Val(current_file) \in DOMAIN pre.files
    /\ Len(pre.files[Val(current_file)]) = 1
    /\ Len(files[Val(current_file)]) = 2
    /\ \E n \in DOMAIN files : files[n] = <<>>

\* C20 as stated: with timestamps enabled, a real mode activation (into a
\* keyword mode from none or from another mode) computes a file name no
\* earlier activation computed, so the file it names does not exist yet.
C20_FreshFilePerActivation ==
    ( /\ Processed
      /\ enable_timestamps
      /\ current_mode # pre.current_mode
      /\ Active(current_mode) )
    => /\ current_file # None
       /\ Val(current_file) \notin DOMAIN pre.files

\* C21 as stated: in every reachable state every file the handler has
\* appended a line to, whose keyword is still in the table with its file
\* name, is in the list get_output_files returns, and every path returned is
\* the path of a table entry with a file name whose file exists.
C21_ListsCreatedFiles ==
    /\ \A n \in DOMAIN files :
          ( /\ files[n] # <<>>
            /\ \E i \in 1..Len(trigger_words) :
                  /\ TruthyFile(trigger_words[i].file)
                  /\ Val(trigger_words[i].file) = n.base )
          => \E j \in 1..Len(get_output_files) : get_output_files[j] = n
    /\ \A j \in 1..Len(get_output_files) :
          /\ get_output_files[j] \in DOMAIN files
          /\ \E i \in 1..Len(trigger_words) :
                /\ TruthyFile(trigger_words[i].file)
                /\ get_output_files[j] =
                     FileName(Val(trigger_words[i].file), None)

\* C22: process_transcript returns true if and only if a trigger was acted
\* upon: the fragment is not blank and either contains "stop" while a mode is
\* active, or contains no "stop" and matches a keyword other than "stop" that
\* has a file name (the keyword of the active mode included).
C22_ReturnsTrueIffTriggered ==
    Processed
    => ( last.ret = TRUE
         <=> /\ ~Blank(last.text)
             /\ IF ContainsWord(StopWord, last.text)
                THEN Active(pre.current_mode)
                ELSE MatchingEntries(last.text) # {} )

\* "code" was processed in code mode: nothing changed, no callback, and the
\* call returned true.
C22_Witness ==
    /\ Processed
    /\ last.text = TCode
    /\ pre.current_mode = Some(KwCode)
    /\ current_mode = Some(KwCode)
    /\ last.calls = <<>>
    /\ last.ret = TRUE

\* C25: a fragment in which "stop" or a recognised keyword (a keyword of the
\* table other than "stop" with a file name) matches is never appended to a
\* file, neither the keyword nor the rest of it: the call writes nothing and
\* leaves every file as it was, so every line of every file comes from a
\* fragment that contained no recognised keyword.
C25_TriggerFragmentsNotWritten ==
    ( /\ last.op = "process_transcript"
      /\ \/ ContainsWord(StopWord, last.text)
         \/ MatchingEntries(last.text) # {} )
    => /\ last.wrote = None
       /\ files = pre.files

\* "description code" was processed in description mode, whose file holds a
\* line: the mode changed to code and nothing was added to any file.
C25_Witness ==
    /\ Processed
    /\ last.text = TDescriptionCode
    /\ pre.current_mode = Some(KwDescription)
    /\ pre.current_file # None
    /\ Val(pre.current_file) \in DOMAIN files
    /\ files[Val(pre.current_file)] # <<>>
    /\ current_mode = Some(KwCode)
    /\ files = pre.files


----------------------------------------------------------------------------
(* process_transcript called from two threads                               *)
(* Each thread runs process_transcript statement by statement: every read   *)
(* or write of self.current_mode and self.current_file, and the append, is  *)
(* a step of its own, so the steps of two calls can interleave. The file    *)
(* system accepts every write and no callback is installed.                 *)

\* The transcripts the threads call process_transcript with.
ThreadTranscripts == { TCode, TDescription, TStop, TEncode }

\* The calls the threads make, all together.
MaxThreadCalls == 3

\* The calls the threads of ts have made.
RECURSIVE CallsMade(_)
CallsMade(ts) ==
    IF ts = {} THEN 0
    ELSE LET t == CHOOSE t \in ts : TRUE
         IN threads[t].calls + CallsMade(ts \ {t})

\* What the steps of a thread leave alone.
ThreadFrame ==
    UNCHANGED << trigger_words, trigger_patterns, enable_timestamps,
                 auto_cleanup_trigger_words, on_mode_change, now, tableOps,
                 pre, last, serialized, pipeVars >>

\* The thread after its call returned or raised: what the call did, and the
\* mode and file that were current when it began.
Returned(t, kind, file) ==
    [threads[t] EXCEPT
        !.pc = "idle",
        !.result = [kind |-> kind, file |-> file,
                    transcript |-> threads[t].transcript,
                    began_mode |-> threads[t].began_mode,
                    began_file |-> threads[t].began_file]]

\* The thread moved to another line of the call.
At(t, pc) == [threads[t] EXCEPT !.pc = pc]

\* The caller's own lock: with the calls serialized a thread enters
\* process_transcript only when no other thread is inside it.
MayEnter(t) ==
    serialized => \A u \in Threads : threads[u].pc = "idle"

\* Thread t calls process_transcript(transcript) with a transcript that is
\* not blank.
ThreadBegin(t, transcript) ==
    /\ threads[t].pc = "idle"
    /\ CallsMade(Threads) < MaxThreadCalls
    /\ MayEnter(t)
    /\ threads' = [threads EXCEPT ![t] =
                      [pc |-> "match", calls |-> threads[t].calls + 1,
                       transcript |-> transcript,
                       began_mode |-> current_mode,
                       began_file |-> current_file,
                       new_mode |-> None, cleaned |-> <<>>,
                       result |-> threads[t].result]]
    /\ UNCHANGED << current_mode, current_file, files >>
    /\ ThreadFrame

\* The stop test, the trigger loop and the comparison that opens
\* _switch_mode: the thread finds which mode, if any, it is to switch to.
ThreadMatch(t) ==
    /\ threads[t].pc = "match"
    /\ LET tr == threads[t].transcript
           i == FirstTrigger(tr)
       IN threads' = [threads EXCEPT ![t] =
             IF StopMatches(tr)
             THEN IF Truthy(current_mode)
                  THEN [At(t, "set_mode") EXCEPT !.new_mode = None]
                  ELSE Returned(t, "false", None)
             ELSE IF i # 0
                  THEN IF Some(trigger_words[i].key) = current_mode
                       THEN Returned(t, "same", None)
                       ELSE [At(t, "set_mode") EXCEPT
                                !.new_mode = Some(trigger_words[i].key)]
                  ELSE At(t, "check")]
    /\ UNCHANGED << current_mode, current_file, files >>
    /\ ThreadFrame

\* self.current_mode = new_mode
ThreadSetMode(t) ==
    /\ threads[t].pc = "set_mode"
    /\ current_mode' = threads[t].new_mode
    /\ threads' = [threads EXCEPT ![t] = At(t, "set_file")]
    /\ UNCHANGED << current_file, files >>
    /\ ThreadFrame

\* The assignment of self.current_file in _switch_mode; the call returns
\* True.
ThreadSetFile(t) ==
    /\ threads[t].pc = "set_file"
    /\ LET new_mode == threads[t].new_mode
       IN /\ current_file' =
                IF Truthy(new_mode) /\ HasKey(trigger_words, Val(new_mode))
                THEN Some(GetFilename(Val(Lookup(trigger_words, Val(new_mode)))))
                ELSE None
          /\ threads' = [threads EXCEPT ![t] =
                Returned(t, IF new_mode = None THEN "stopped" ELSE "switched",
                         None)]
    /\ UNCHANGED << current_mode, files >>
    /\ ThreadFrame

\* if not trigger_detected and self.current_mode and self.current_file
ThreadCheck(t) ==
    /\ threads[t].pc = "check"
    /\ threads' = [threads EXCEPT ![t] =
          IF Truthy(current_mode) /\ current_file # None
          THEN At(t, "cleanup")
          ELSE Returned(t, "false", None)]
    /\ UNCHANGED << current_mode, current_file, files >>
    /\ ThreadFrame

\* cleaned_text = self._cleanup_trigger_word(transcript, self.current_mode):
\* the mode is read again; with auto-cleanup, None has no lower() and the
\* call raises AttributeError.
ThreadCleanup(t) ==
    /\ threads[t].pc = "cleanup"
    /\ threads' = [threads EXCEPT ![t] =
          IF auto_cleanup_trigger_words /\ current_mode = None
          THEN Returned(t, "raised", None)
          ELSE LET cleaned_text ==
                       IF current_mode = None THEN threads[t].transcript
                       ELSE CleanupTriggerWord(threads[t].transcript,
                                               Val(current_mode))
               IN IF TruthyStr(cleaned_text)
                  THEN [At(t, "guard") EXCEPT !.cleaned = cleaned_text]
                  ELSE Returned(t, "empty", None)]
    /\ UNCHANGED << current_mode, current_file, files >>
    /\ ThreadFrame

\* _write_to_file with the test of self.current_file negated: it returns
\* when a file is current.
ThreadGuardInverted(t) ==
    /\ threads[t].pc = "guard"
    /\ threads' = [threads EXCEPT ![t] =
          IF current_file # None \/ Strip(threads[t].cleaned) = <<>>
          THEN Returned(t, "dropped", None)
          ELSE At(t, "append")]
    /\ UNCHANGED << current_mode, current_file, files >>
    /\ ThreadFrame

\* The first statement of _write_to_file: it returns without writing when
\* no file is current.
ThreadGuard(t) ==
    /\ threads[t].pc = "guard"
    /\ threads' = [threads EXCEPT ![t] =
          IF current_file = None \/ Strip(threads[t].cleaned) = <<>>
          THEN Returned(t, "dropped", None)
          ELSE At(t, "append")]
    /\ UNCHANGED << current_mode, current_file, files >>
    /\ ThreadFrame

\* The try block of _write_to_file: self.current_file is read again and the
\* line is appended to that file; os.path.join raises TypeError on None,
\* which is caught and logged.
ThreadAppend(t) ==
    /\ threads[t].pc = "append"
    /\ IF current_file = None
       THEN /\ threads' = [threads EXCEPT ![t] = Returned(t, "dropped", None)]
            /\ UNCHANGED files
       ELSE /\ files' = AppendLine(files, Val(current_file),
                                   threads[t].cleaned, "ok")
            /\ threads' = [threads EXCEPT ![t] =
                              Returned(t, "appended", current_file)]
    /\ UNCHANGED << current_mode, current_file >>
    /\ ThreadFrame

\* The default handler without a callback, shared by the threads, which
\* either serialize their calls or do not.
InitThreads ==
    /\ HandlerConstructed(DefaultTriggerWords)
    /\ enable_timestamps = FALSE
    /\ on_mode_change = FALSE
    /\ serialized \in BOOLEAN
    /\ threads = [t \in Threads |-> IdleThread]
    /\ PipeConstructed

NextThreads ==
    \E t \in Threads :
        \/ \E transcript \in ThreadTranscripts : ThreadBegin(t, transcript)
        \/ ThreadMatch(t)
        \/ ThreadSetMode(t)
        \/ ThreadSetFile(t)
        \/ ThreadCheck(t)
        \/ ThreadCleanup(t)
        \/ ThreadGuard(t)
        \/ ThreadAppend(t)

SpecThreads == InitThreads /\ [][NextThreads]_vars

\* The call thread t made last has returned or raised.
Completed(t) == threads[t].pc = "idle" /\ threads[t].result.kind # "init"

\* The call thread t made last was a pass-through: it began with a mode and
\* a file current, and its transcript named no trigger and not "stop".
PassedThrough(t) ==
    /\ Completed(t)
    /\ Truthy(threads[t].result.began_mode)
    /\ threads[t].result.began_file # None
    /\ ~StopMatches(threads[t].result.transcript)
    /\ FirstTrigger(threads[t].result.transcript) = 0

C24_Dropped ==
    /\ ~serialized
    /\ \E t \in Threads : PassedThrough(t) /\ threads[t].result.kind = "dropped"

\* Two unserialized callers: a pass-through call raised.
C24_Raised ==
    /\ ~serialized
    /\ \E t \in Threads : PassedThrough(t) /\ threads[t].result.kind = "raised"


----------------------------------------------------------------------------
(* ParentPipe (audio_processor/safepipe.py)                                 *)
(* The caller threads and the worker thread run their methods statement by  *)
(* statement; the child process at the other end of the connection sends    *)
(* messages and may close its end. A call is known by its number, the       *)
(* position of its result_queue in result_queues, which is also the order   *)
(* in which the requests were put on the request queue.                     *)

\* The calls of send, recv, poll and close that get as far as a request.
MaxCalls == 2

\* The messages the child sends.
MaxMessages == 1

\* The methods a caller calls besides close.
PipeOps == { "SEND", "RECV", "POLL" }

\* A request on self._request_queue: {"type": ..., "result_queue": ...}.
Request(type, call) == [type |-> type, call |-> call]

\* A result_queue created by a call: the thread that made the call, the
\* request's type, and what the worker has put on it.
ResultQueue(owner, type) == [owner |-> owner, type |-> type, items |-> <<>>]

\* What the worker puts on a result_queue.
Item(kind, value) == [kind |-> kind, value |-> value]

\* One operation on self._pipe.
PipeOperation(op, by, call, data) ==
    [op |-> op, by |-> by, call |-> call, data |-> data]

\* What the methods of TriggerWordHandler own: no step of the pipe touches
\* it.
PipeFrame ==
    UNCHANGED << trigger_words, trigger_patterns, enable_timestamps,
                 auto_cleanup_trigger_words, on_mode_change, current_mode,
                 current_file, files, now, tableOps, pre, last, threadVars >>

\* Calls that passed their test of self._closed and have not put their
\* request yet.
AboutToEnqueue ==
    { c \in Callers : callers[c].pc \in { "checked", "close_set", "close_put" } }

\* result_queue.put(item) on the result_queue of the given call.
PutResult(call, item) ==
    [result_queues EXCEPT ![call].items = Append(@, item)]

\* The first statement of send, recv and poll: with self._closed set, send
\* and recv raise RuntimeError and poll returns False.
CallerCall(c, op, timeout) ==
    /\ callers[c].pc = "idle"
    /\ Len(result_queues) + Cardinality(AboutToEnqueue) < MaxCalls
    /\ callers' = [callers EXCEPT ![c] =
          IF closed THEN IdleCaller
          ELSE [pc |-> "checked", op |-> op, call |-> 0,
                timeout |-> (timeout \/ op = "POLL")]]
    /\ UNCHANGED << closed, stop_event, request_queue, result_queues, worker,
                    conn, childSent, pipe_log, returned >>
    /\ PipeFrame

\* result_queue = queue.Queue(); self._request_queue.put({...})
CallerEnqueue(c) ==
    /\ callers[c].pc = "checked"
    /\ LET call == Len(result_queues) + 1
       IN /\ result_queues' = Append(result_queues,
                                     ResultQueue(c, callers[c].op))
          /\ request_queue' = Append(request_queue,
                                     Request(callers[c].op, call))
          /\ callers' = [callers EXCEPT ![c].pc = "waiting", ![c].call = call]
    /\ UNCHANGED << closed, stop_event, worker, conn, childSent, pipe_log,
                    returned >>
    /\ PipeFrame

\* result_queue.get(timeout=timeout) returns what the worker put: the call
\* returns it, a message when the worker received one.
CallerReturn(c) ==
    /\ callers[c].pc = "waiting"
    /\ result_queues[callers[c].call].items # <<>>
    /\ LET item == Head(result_queues[callers[c].call].items)
       IN returned' = IF item.kind = "data"
                      THEN returned \cup { item.value }
                      ELSE returned
    /\ result_queues' =
          [result_queues EXCEPT ![callers[c].call].items = Tail(@)]
    /\ callers' = [callers EXCEPT ![c] = IdleCaller]
    /\ UNCHANGED << closed, stop_event, request_queue, worker, conn,
                    childSent, pipe_log >>
    /\ PipeFrame

\* result_queue.get(timeout=timeout) raises queue.Empty: send and recv
\* raise TimeoutError, poll returns False. The request stays where it is.
CallerTimeout(c) ==
    /\ callers[c].pc = "waiting"
    /\ callers[c].timeout
    /\ result_queues[callers[c].call].items = <<>>
    /\ callers' = [callers EXCEPT ![c] = IdleCaller]
    /\ UNCHANGED << closed, stop_event, request_queue, result_queues, worker,
                    conn, childSent, pipe_log, returned >>
    /\ PipeFrame

\* close(): if self._closed: return
CloseCheck(c) ==
    /\ callers[c].pc = "idle"
    /\ Len(result_queues) + Cardinality(AboutToEnqueue) < MaxCalls
    /\ callers' = [callers EXCEPT ![c] =
          IF closed THEN IdleCaller
          ELSE [pc |-> "close_set", op |-> "CLOSE", call |-> 0,
                timeout |-> TRUE]]
    /\ UNCHANGED << closed, stop_event, request_queue, result_queues, worker,
                    conn, childSent, pipe_log, returned >>
    /\ PipeFrame

\* close(): self._closed = True
CloseSet(c) ==
    /\ callers[c].pc = "close_set"
    /\ closed' = TRUE
    /\ callers' = [callers EXCEPT ![c].pc = "close_put"]
    /\ UNCHANGED << stop_event, request_queue, result_queues, worker, conn,
                    childSent, pipe_log, returned >>
    /\ PipeFrame

\* close(): the CLOSE request is put on the request queue.
ClosePut(c) ==
    /\ callers[c].pc = "close_put"
    /\ LET call == Len(result_queues) + 1
       IN /\ result_queues' = Append(result_queues, ResultQueue(c, "CLOSE"))
          /\ request_queue' = Append(request_queue, Request("CLOSE", call))
          /\ callers' = [callers EXCEPT ![c].pc = "close_stop",
                                        ![c].call = call]
    /\ UNCHANGED << closed, stop_event, worker, conn, childSent, pipe_log,
                    returned >>
    /\ PipeFrame

\* close(): self._stop_event.set()
CloseStop(c) ==
    /\ callers[c].pc = "close_stop"
    /\ stop_event' = TRUE
    /\ callers' = [callers EXCEPT ![c].pc = "close_join"]
    /\ UNCHANGED << closed, request_queue, result_queues, worker, conn,
                    childSent, pipe_log, returned >>
    /\ PipeFrame

\* close(): self._worker_thread.join(timeout=...) returns, the worker
\* exited or not.
CloseJoin(c) ==
    /\ callers[c].pc = "close_join"
    /\ callers' = [callers EXCEPT ![c] = IdleCaller]
    /\ UNCHANGED << closed, stop_event, request_queue, result_queues, worker,
                    conn, childSent, pipe_log, returned >>
    /\ PipeFrame

\* while not self._stop_event.is_set()
WorkerLoop ==
    /\ worker.pc = "loop"
    /\ worker' = [worker EXCEPT !.pc = IF stop_event THEN "closing" ELSE "get"]
    /\ UNCHANGED << closed, stop_event, request_queue, result_queues, conn,
                    childSent, callers, pipe_log, returned >>
    /\ PipeFrame

\* The request queue as a stack: the worker takes the newest request.
WorkerGetLifo ==
    /\ worker.pc = "get"
    /\ IF request_queue = <<>>
       THEN /\ worker' = [worker EXCEPT !.pc = "loop"]
            /\ UNCHANGED << request_queue, result_queues >>
       ELSE LET request == request_queue[Len(request_queue)]
            IN /\ request_queue' =
                     SubSeq(request_queue, 1, Len(request_queue) - 1)
               /\ IF request.type = "CLOSE"
                  THEN /\ result_queues' =
                             PutResult(request.call, Item("closed", TRUE))
                       /\ worker' = [pc |-> "closing", request |-> <<>>]
                  ELSE /\ worker' = [pc |-> "exec", request |-> << request >>]
                       /\ UNCHANGED result_queues
    /\ UNCHANGED << closed, stop_event, conn, childSent, callers, pipe_log,
                    returned >>
    /\ PipeFrame

\* request = self._request_queue.get(timeout=0.1): queue.Empty sends the
\* worker back to the test of the loop; a CLOSE request is answered with
\* True and breaks the loop; any other request is executed next.
WorkerGet ==
    /\ worker.pc = "get"
    /\ IF request_queue = <<>>
       THEN /\ worker' = [worker EXCEPT !.pc = "loop"]
            /\ UNCHANGED << request_queue, result_queues >>
       ELSE LET request == Head(request_queue)
            IN /\ request_queue' = Tail(request_queue)
               /\ IF request.type = "CLOSE"
                  THEN /\ result_queues' =
                             PutResult(request.call, Item("closed", TRUE))
                       /\ worker' = [pc |-> "closing", request |-> <<>>]
                  ELSE /\ worker' = [pc |-> "exec", request |-> << request >>]
                       /\ UNCHANGED result_queues
    /\ UNCHANGED << closed, stop_event, conn, childSent, callers, pipe_log,
                    returned >>
    /\ PipeFrame

\* SEND: self._pipe.send(data); result_queue.put(None). With the child's
\* end closed the send raises BrokenPipeError: the error is put on the
\* result_queue and the loop is left.
WorkerSend ==
    /\ worker.pc = "exec"
    /\ Val(worker.request).type = "SEND"
    /\ LET call == Val(worker.request).call
       IN /\ pipe_log' = Append(pipe_log,
                                PipeOperation("send", "worker", call, None))
          /\ IF conn.peer = "open"
             THEN /\ result_queues' = PutResult(call, Item("none", None))
                  /\ worker' = [pc |-> "loop", request |-> <<>>]
             ELSE /\ result_queues' = PutResult(call, Item("error", None))
                  /\ worker' = [pc |-> "closing", request |-> <<>>]
    /\ UNCHANGED << closed, stop_event, request_queue, conn, childSent,
                    callers, returned >>
    /\ PipeFrame

\* RECV: data = self._pipe.recv(); result_queue.put(data). The recv blocks
\* until the child has sent a message or closed its end (EOFError: the
\* error is put on the result_queue and the loop is left).
WorkerRecv ==
    /\ worker.pc = "exec"
    /\ Val(worker.request).type = "RECV"
    /\ conn.inbox # <<>> \/ conn.peer = "closed"
    /\ LET call == Val(worker.request).call
       IN IF conn.inbox # <<>>
          THEN /\ conn' = [conn EXCEPT !.inbox = Tail(@)]
               /\ pipe_log' =
                     Append(pipe_log,
                            PipeOperation("recv", "worker", call,
                                          Some(Head(conn.inbox))))
               /\ result_queues' =
                     PutResult(call, Item("data", Head(conn.inbox)))
               /\ worker' = [pc |-> "loop", request |-> <<>>]
          ELSE /\ pipe_log' =
                     Append(pipe_log,
                            PipeOperation("recv", "worker", call, None))
               /\ result_queues' = PutResult(call, Item("error", None))
               /\ worker' = [pc |-> "closing", request |-> <<>>]
               /\ UNCHANGED conn
    /\ UNCHANGED << closed, stop_event, request_queue, childSent, callers,
                    returned >>
    /\ PipeFrame

\* POLL: result = self._pipe.poll(timeout); result_queue.put(result). The
\* connection is readable when a message or the end of the stream waits.
WorkerPoll ==
    /\ worker.pc = "exec"
    /\ Val(worker.request).type = "POLL"
    /\ LET call == Val(worker.request).call
       IN /\ pipe_log' = Append(pipe_log,
                                PipeOperation("poll", "worker", call, None))
          /\ result_queues' =
                PutResult(call,
                          Item("poll",
                               conn.inbox # <<>> \/ conn.peer = "closed"))
    /\ worker' = [pc |-> "loop", request |-> <<>>]
    /\ UNCHANGED << closed, stop_event, request_queue, conn, childSent,
                    callers, returned >>
    /\ PipeFrame

\* After the loop: self._pipe.close(), and the worker thread exits.
WorkerClosePipe ==
    /\ worker.pc = "closing"
    /\ conn' = [conn EXCEPT !.state = "closed"]
    /\ pipe_log' = Append(pipe_log, PipeOperation("close", "worker", 0, None))
    /\ worker' = [pc |-> "exited", request |-> <<>>]
    /\ UNCHANGED << closed, stop_event, request_queue, result_queues,
                    childSent, callers, returned >>
    /\ PipeFrame

\* The child process sends a message on its end of the connection.
ChildSend ==
    /\ conn.peer = "open"
    /\ conn.state = "open"
    /\ childSent < MaxMessages
    /\ childSent' = childSent + 1
    /\ conn' = [conn EXCEPT !.inbox = Append(@, childSent + 1)]
    /\ UNCHANGED << closed, stop_event, request_queue, result_queues, worker,
                    callers, pipe_log, returned >>
    /\ PipeFrame

\* The child process closes its end of the connection, or exits.
ChildClose ==
    /\ conn.peer = "open"
    /\ conn' = [conn EXCEPT !.peer = "closed"]
    /\ UNCHANGED << closed, stop_event, request_queue, result_queues, worker,
                    childSent, callers, pipe_log, returned >>
    /\ PipeFrame

\* SafePipe(): a pipe just constructed; the handler is not used.
InitPipe ==
    /\ HandlerConstructed(DefaultTriggerWords)
    /\ enable_timestamps = FALSE
    /\ auto_cleanup_trigger_words
    /\ ~on_mode_change
    /\ ThreadsIdle
    /\ PipeConstructed

NextPipe ==
    \/ \E c \in Callers :
          \/ \E op \in PipeOps, timeout \in BOOLEAN : CallerCall(c, op, timeout)
          \/ CallerEnqueue(c)
          \/ CallerReturn(c)
          \/ CallerTimeout(c)
          \/ CloseCheck(c)
          \/ CloseSet(c)
          \/ ClosePut(c)
          \/ CloseStop(c)
          \/ CloseJoin(c)
    \/ WorkerLoop
    \/ WorkerGet
    \/ WorkerSend
    \/ WorkerRecv
    \/ WorkerPoll
    \/ WorkerClosePipe
    \/ ChildSend
    \/ ChildClose

SpecPipe == InitPipe /\ [][NextPipe]_vars

\* The operations on the connection made for requests (the close after the
\* loop is made for none).
ForRequests == SelectSeq(pipe_log, LAMBDA o : o.op # "close")

\* C23: every operation on the underlying connection (send, recv, poll,
\* close) is executed by the worker thread, never by a caller thread; the
\* operations are made in the order their requests were enqueued, each
\* request at most once and only after it was enqueued; while a request is
\* being executed it is the only one off the queue; and the close is the
\* last operation on the connection.
C23_FunnelledInOrder ==
    /\ \A i \in 1..Len(pipe_log) :
          /\ pipe_log[i].by = "worker"
          /\ pipe_log[i].by \notin Callers
          /\ pipe_log[i].op = "close" => i = Len(pipe_log)
    /\ \A i \in 1..Len(ForRequests) :
          /\ ForRequests[i].call \in 1..Len(result_queues)
          /\ \A j \in 1..Len(ForRequests) :
                i < j => ForRequests[i].call < ForRequests[j].call
    /\ worker.pc = "exec" =>
          /\ \A i \in 1..Len(ForRequests) :
                ForRequests[i].call < Val(worker.request).call
          /\ \A k \in 1..Len(request_queue) :
                Val(worker.request).call < request_queue[k].call

\* Two caller threads had requests on the queue at the same time, and the
\* worker has executed both on the connection.
C23_Witness ==
    /\ Len(ForRequests) >= 2
    /\ \E i, j \in 1..Len(ForRequests) :
          /\ i < j
          /\ result_queues[ForRequests[i].call].owner
                # result_queues[ForRequests[j].call].owner
    /\ \A c \in Callers : callers[c].pc = "waiting"

\* Caller c is in send() or recv() without a timeout, blocked in
\* result_queue.get() on an empty result_queue.
BlockedOnResultQueue(c) ==
    /\ callers[c].pc = "waiting"
    /\ callers[c].op \in { "SEND", "RECV" }
    /\ ~callers[c].timeout
    /\ result_queues[callers[c].call].items = <<>>

\* C26: every send() or recv() made without a timeout that passed the
\* closed check eventually returns. Nothing but the worker thread puts
\* anything on a result_queue, so a caller blocked on an empty result_queue
\* once the worker thread has exited never returns: the claim requires
\* that there is no such caller.
C26_NoCallerBlockedForever ==
    \A c \in Callers : BlockedOnResultQueue(c) => worker.pc # "exited"

\* A caller is blocked for ever after a concurrent close(): it passed the
\* closed check before close() set the flag.
C26_BlockedAfterClose ==
    \E c \in Callers :
        BlockedOnResultQueue(c) /\ worker.pc = "exited" /\ closed

\* A caller is blocked for ever after a pipe error: the worker left its
\* loop and self._closed was never set.
C26_BlockedAfterPipeError ==
    \E c \in Callers :
        BlockedOnResultQueue(c) /\ worker.pc = "exited" /\ ~closed

\* The messages the worker has taken off the connection.
TakenOffPipe ==
    { Val(pipe_log[i].data) :
        i \in { j \in 1..Len(pipe_log) :
                  pipe_log[j].op = "recv" /\ pipe_log[j].data # None } }

\* Message m is on the result_queue of a recv() call that is still waiting
\* for it.
AwaitedBy(m, c) ==
    /\ callers[c].pc = "waiting"
    /\ \E n \in 1..Len(result_queues[callers[c].call].items) :
          result_queues[callers[c].call].items[n] = Item("data", m)

\* C27: every message the worker takes off the underlying connection is
\* returned by some recv() call: at every moment it has been returned, or
\* it is on the result_queue of a call that is still waiting for it.
C27_NoMessageDiscarded ==
    \A m \in TakenOffPipe :
        \/ m \in returned
        \/ \E c \in Callers : AwaitedBy(m, c)

====
